---- MODULE Spec2Model ----
(***************************************************************************)
(* Project Samarth: the paginated fetchers (rainfall.py, crop_data.py),    *)
(* the driver of the rainfall fetch (rainfall.main), the CSV-to-SQLite     *)
(* build (db_creator.py) and the chat loop of the front-end (app.py), as   *)
(* one state machine.                                                      *)
(*                                                                         *)
(* A record of the API is identified by the query it was asked for (0 for  *)
(* a stand-alone fetch, the number of the (year, state) combination under  *)
(* rainfall.main) and its index in the server's result set: a page         *)
(* requested at offset o with n records holds the indices o .. o+n-1.      *)
(***************************************************************************)
EXTENDS Integers, Sequences, FiniteSets, TLC

\* ------------------------------------------------------------------ bounds

\* The server serves a full page only at the first MaxFullPages offsets.
MaxFullPages == 2
\* rainfall.main: how many of the years of YEARS_TO_FETCH the model runs.
NumYears == 2

\* process_crop_data / process_rainfall_data alone: the rows of the raw file.
MaxRows == 2
\* db_creator.main: the rows of each raw file.
MaxDbRows == 1
\* db_creator.main: how many times in succession the script is run.
MaxRuns == 2

\* app.main: the questions submitted in a session.
MaxQuestions == 2
\* app.main: the pieces of the agent's output, when every output is tried.
MaxOutputLen == 4

\* --------------------------------------------------------- program constants

\* rainfall.py:38, crop_data.py:25
limit == 1000
\* rainfall.py:40, crop_data.py:27
max_retries == 5
\* rainfall.py:73, crop_data.py:52: time.sleep(3)
backoff == 3
\* rainfall.py:67
FORBIDDEN == 403
\* rainfall.py:17: range(2018, 2026), cut to its first NumYears years
FirstYear == 2018
YEARS_TO_FETCH == [i \in 1..NumYears |-> FirstYear + i - 1]
\* rainfall.py:20: the first two states of the list
STATES_LIST == <<"Uttar Pradesh", "Madhya Pradesh">>

VARIABLES
    \* ---- one call of fetch_paginated_data / fetch_all_data
    fn,             \* which of the two functions is running
    pc,             \* "idle", "request" (in the retry loop), "page" (past it), "done"
    query,          \* the number of the query the call is for
    all_records,    \* the accumulated records
    offset,         \* the offset of the next request
    current_retry,  \* the retry loop's index, 0 .. max_retries-1
    response,       \* the last response or exception: [kind, status]
    data,           \* the last decoded body: [body, records]
    ret,            \* the returned value: [kind, records]
    reqlog,         \* every HTTP request of the call: [offset, outcome, n]
    slept,          \* seconds slept by the call
    total_records,  \* the size of the server's result set (the paging server)
    \* ---- rainfall.main
    m_pc,           \* "idle", "loop", "fetching", "save", "done", "stopped"
    yi,             \* index into YEARS_TO_FETCH
    si,             \* index into STATES_LIST
    all_rainfall_records,
    out_file,       \* raw_rainfall_data.csv: [exists, rows]
    queried,        \* the combinations fetch_paginated_data was called for
    gave_up,        \* the number of the first query whose fetch ended on
                    \* exhausted retries, 0 when none did
    \* ---- db_creator.main
    d_pc,           \* "idle", "crop", "rain", "check", "remove", "connect",
                    \* "save_crop", "save_rain", "close", and the three ends
                    \* "complete", "build_failed", "save_error"
    crop_csv,       \* raw_crop_data.csv: [exists, rows]
    rain_csv,       \* raw_rainfall_data.csv as db_creator reads it: [exists, rows]
    df_crop_clean,  \* [none, rows]
    df_rain_clean,  \* [none, rows]
    dropped_count,  \* the count process_crop_data reports
    db,             \* data.gov.db: [exists, tables]
    db_before,      \* data.gov.db as the run found it
    read_log,       \* the paths read_csv was called on
    db_ops,         \* the operations made on data.gov.db
    run,            \* the number of the run of db_creator.main, from 1
    prev_end,       \* how the run before this one ended, "none" for run 1
    \* ---- app.main: the chat loop
    c_pc,           \* "idle" (waiting for chat input), "invoke" (in the agent)
    messages,       \* st.session_state.messages: [role, content]
    prompt,         \* the question being handled
    output_str,     \* the agent's output as one string
    final_answer,   \* the reply
    sources,        \* the sources shown under the reply
    invocation,     \* how the last agent invocation ended: "none",
                    \* "returned", "raised"
    history_before, \* the messages as the last question found them
    asked           \* the questions submitted so far

fetchVars == <<fn, pc, query, all_records, offset, current_retry, response,
               data, ret, reqlog, slept, total_records>>
mainVars == <<m_pc, yi, si, all_rainfall_records, out_file, queried, gave_up>>
dbVars == <<d_pc, crop_csv, rain_csv, df_crop_clean, df_rain_clean,
            dropped_count, db, db_before, read_log, db_ops, run, prev_end>>
chatVars == <<c_pc, messages, prompt, output_str, final_answer, sources,
              invocation, history_before, asked>>
vars == <<fetchVars, mainVars, dbVars, chatVars>>

\* ------------------------------------------------------------------ values

Min(a, b) == IF a < b THEN a ELSE b
Max(a, b) == IF a < b THEN b ELSE a

\* The record of index k in the result set of query q, as one number: no
\* result set of the model reaches (MaxFullPages + 1) * limit records.
RecordId(q, k) == q * (MaxFullPages + 1) * limit + k

\* The page of n records the server holds at offset off of query q.
Page(q, off, n) == [i \in 1..n |-> RecordId(q, off + i - 1)]

NoResponse == [kind |-> "none", status |-> 0]
NoData == [body |-> "none", records |-> <<>>]
NoReturn == [kind |-> "none", records |-> <<>>]
FATAL_ERROR == [kind |-> "FATAL_ERROR", records |-> <<>>]

\* requests.Response.__bool__ is Response.ok: false for every 4xx/5xx status.
\* An exception without a response carries None (status 0 here), false too.
ResponseTruthy(status) == status # 0 /\ status < 400

\* rainfall.py:67  `e.response and e.response.status_code == 403`;
\* crop_data.py has no such test.
IsFatalStatus(f, status) ==
    /\ f = "fetch_paginated_data"
    /\ ResponseTruthy(status)
    /\ status = FORBIDDEN

\* `for current_retry in range(max_retries)`: is there another iteration?
HasNextAttemptOffByOne(r) == r < max_retries
HasNextAttempt(r) == r + 1 < max_retries

\* all_records.extend(records)
ExtendOverwrite(all, recs) == recs
Extend(all, recs) == all \o recs

\* `if len(records) < limit: break`
IsLastPageInclusive(recs) == Len(recs) <= limit
IsLastPage(recs) == Len(recs) < limit

\* `offset += limit`
NextOffsetStuck(off) == off
NextOffset(off) == off + limit

\* `return all_records` / `return pd.DataFrame(all_records)`
ReturnOf(f, recs) ==
    [kind |-> IF f = "fetch_paginated_data" THEN "list" ELSE "DataFrame",
     records |-> recs]

\* The for loop's else (rainfall.py:74-76, crop_data.py:59-61): `break` out
\* of `while True`, then `return all_records`.
GiveUpFatal(f, recs) == FATAL_ERROR
GiveUp(f, recs) == ReturnOf(f, recs)

\* ----------------------------------------------------------- the fetch call

\* The state on entry to `while True` (rainfall.py:37-53, crop_data.py:24-31).
CallFetch(f, q) ==
    /\ fn' = f
    /\ query' = q
    /\ pc' = "request"
    /\ all_records' = <<>>
    /\ offset' = 0
    /\ current_retry' = 0
    /\ response' = NoResponse
    /\ data' = NoData
    /\ ret' = NoReturn
    /\ reqlog' = <<>>
    /\ slept' = 0

\* requests.get succeeded and response.json() is {"records": [n records]}:
\* `break` out of the retry loop (rainfall.py:60-63, crop_data.py:43-48).
RequestOk(n) ==
    /\ pc = "request"
    /\ response' = [kind |-> "ok", status |-> 200]
    /\ data' = [body |-> "object", records |-> Page(query, offset, n)]
    /\ reqlog' = Append(reqlog, [offset |-> offset, outcome |-> "records", n |-> n])
    /\ pc' = "page"
    /\ UNCHANGED <<fn, query, all_records, offset, current_retry, ret, slept,
                   total_records, mainVars, dbVars, chatVars>>

\* The decoded body is the JSON string "FATAL_ERROR" (the case rainfall.py:78
\* tests for). fetch_all_data has no branch for it.
RequestFatalBody ==
    /\ pc = "request"
    /\ fn = "fetch_paginated_data"
    /\ response' = [kind |-> "ok", status |-> 200]
    /\ data' = [body |-> "FATAL_ERROR", records |-> <<>>]
    /\ reqlog' = Append(reqlog, [offset |-> offset, outcome |-> "fatal_body", n |-> 0])
    /\ pc' = "page"
    /\ UNCHANGED <<fn, query, all_records, offset, current_retry, ret, slept,
                   total_records, mainVars, dbVars, chatVars>>

\* The except clause for RequestException (rainfall.py:65-76,
\* crop_data.py:50-52 and 59-61): status 0 is a transport error with no
\* response, any other status is the HTTPError of raise_for_status.
RequestError(status) ==
    /\ pc = "request"
    /\ response' = [kind |-> "error", status |-> status]
    /\ reqlog' = Append(reqlog, [offset |-> offset, outcome |-> "error", n |-> 0])
    /\ IF IsFatalStatus(fn, status)
       THEN /\ ret' = FATAL_ERROR
            /\ pc' = "done"
            /\ UNCHANGED <<current_retry, slept>>
       ELSE /\ slept' = slept + backoff
            /\ IF HasNextAttempt(current_retry)
               THEN /\ current_retry' = current_retry + 1
                    /\ UNCHANGED <<pc, ret>>
               ELSE /\ ret' = GiveUp(fn, all_records)
                    /\ pc' = "done"
                    /\ UNCHANGED current_retry
    /\ UNCHANGED <<fn, query, all_records, offset, data, total_records, mainVars, dbVars, chatVars>>

\* crop_data.py:54-57: any other exception inside the try returns at once
\* what was accumulated. fetch_paginated_data has no such clause.
RequestUnexpected ==
    /\ pc = "request"
    /\ fn = "fetch_all_data"
    /\ response' = [kind |-> "unexpected", status |-> 0]
    /\ reqlog' = Append(reqlog, [offset |-> offset, outcome |-> "unexpected", n |-> 0])
    /\ ret' = ReturnOf(fn, all_records)
    /\ pc' = "done"
    /\ UNCHANGED <<fn, query, all_records, offset, current_retry, data, slept,
                   total_records, mainVars, dbVars, chatVars>>

\* After the retry loop (rainfall.py:78-92, crop_data.py:64-76); the next
\* iteration of `while True` resets current_retry.
ProcessPage ==
    /\ pc = "page"
    /\ IF fn = "fetch_paginated_data" /\ data.body = "FATAL_ERROR"
       THEN /\ ret' = FATAL_ERROR
            /\ pc' = "done"
            /\ UNCHANGED <<all_records, offset, current_retry>>
       ELSE IF data.records = <<>>
       THEN /\ ret' = ReturnOf(fn, all_records)
            /\ pc' = "done"
            /\ UNCHANGED <<all_records, offset, current_retry>>
       ELSE /\ all_records' = Extend(all_records, data.records)
            /\ IF IsLastPage(data.records)
               THEN /\ ret' = ReturnOf(fn, Extend(all_records, data.records))
                    /\ pc' = "done"
                    /\ UNCHANGED <<offset, current_retry>>
               ELSE /\ offset' = NextOffset(offset)
                    /\ current_retry' = 0
                    /\ pc' = "request"
                    /\ UNCHANGED ret
    /\ UNCHANGED <<fn, query, response, data, reqlog, slept, total_records, mainVars, dbVars, chatVars>>

\* ------------------------------------------------------------ the request log

RECURSIVE Received(_, _)
\* The records of the pages the log says were received, in the order received.
Received(q, log) ==
    IF log = <<>> THEN <<>>
    ELSE LET e == log[Len(log)]
             before == Received(q, SubSeq(log, 1, Len(log) - 1))
         IN  IF e.outcome = "records" THEN before \o Page(q, e.offset, e.n)
             ELSE before

RECURSIVE SumCounts(_)
\* The sum of the record counts of the pages received.
SumCounts(log) ==
    IF log = <<>> THEN 0
    ELSE SumCounts(SubSeq(log, 1, Len(log) - 1))
         + (IF log[Len(log)].outcome = "records" THEN log[Len(log)].n ELSE 0)

\* The sizes of the pages received, in order.
OkSizes(log) ==
    LET idx == {i \in 1..Len(log) : log[i].outcome = "records"}
        RECURSIVE Sizes(_)
        Sizes(k) == IF k = 0 THEN <<>>
                    ELSE IF k \in idx THEN Append(Sizes(k - 1), log[k].n)
                    ELSE Sizes(k - 1)
    IN  Sizes(Len(log))

\* How many requests of the log were made at offset off.
Attempts(log, off) == Cardinality({i \in 1..Len(log) : log[i].offset = off})
\* How many requests of the log failed.
Failures(log) == Cardinality({i \in 1..Len(log) : log[i].outcome = "error"})
\* How many requests of the log failed at offset off.
FailuresAt(log, off) ==
    Cardinality({i \in 1..Len(log) : log[i].outcome = "error" /\ log[i].offset = off})

Returned == pc = "done" /\ ret.kind \in {"list", "DataFrame"}

\* ------------------------------------------------------------ rainfall.main

\* The number of the combination (year index y, state index st), counted in
\* the order of the two nested loops (rainfall.py:109-111).
QueryNumber(y, st) == (y - 1) * Len(STATES_LIST) + st

\* rainfall.py:126  `records_for_query == "FATAL_ERROR"`
IsFatalSignalNever(r) == FALSE
IsFatalSignal(r) == r.kind = "FATAL_ERROR"

\* rainfall.py:128  `return`: where main is after the fatal signal.
AfterFatalSave == "save"
AfterFatal == "stopped"

\* The retry loop of the call ran out: 5 failures at the current offset.
FetchGaveUp == FailuresAt(reqlog, offset) = max_retries

\* rainfall.py:109-123: the next combination's call of fetch_paginated_data.
MainCall ==
    /\ m_pc = "loop"
    /\ CallFetch("fetch_paginated_data", QueryNumber(yi, si))
    /\ queried' = Append(queried, <<YEARS_TO_FETCH[yi], STATES_LIST[si]>>)
    /\ m_pc' = "fetching"
    /\ UNCHANGED <<total_records, yi, si, all_rainfall_records, out_file, gave_up, dbVars, chatVars>>

\* rainfall.py:125-136 and the step of the two for loops.
MainReturn ==
    /\ m_pc = "fetching"
    /\ pc = "done"
    /\ IF IsFatalSignal(ret)
       THEN /\ m_pc' = AfterFatal
            /\ UNCHANGED <<yi, si, all_rainfall_records, gave_up>>
       ELSE /\ all_rainfall_records' =
                  IF ret.records # <<>> THEN Extend(all_rainfall_records, ret.records)
                  ELSE all_rainfall_records
            /\ gave_up' = IF gave_up = 0 /\ FetchGaveUp THEN query ELSE gave_up
            /\ IF si < Len(STATES_LIST)
               THEN si' = si + 1 /\ yi' = yi /\ m_pc' = "loop"
               ELSE IF yi < Len(YEARS_TO_FETCH)
               THEN si' = 1 /\ yi' = yi + 1 /\ m_pc' = "loop"
               ELSE si' = si /\ yi' = yi /\ m_pc' = "save"
    /\ UNCHANGED <<fetchVars, out_file, queried, dbVars, chatVars>>

\* rainfall.py:139-147
MainSave ==
    /\ m_pc = "save"
    /\ out_file' = IF all_rainfall_records # <<>>
                   THEN [exists |-> TRUE, rows |-> all_rainfall_records]
                   ELSE out_file
    /\ m_pc' = "done"
    /\ UNCHANGED <<fetchVars, yi, si, all_rainfall_records, queried, gave_up, dbVars, chatVars>>

\* --------------------------------------------------------------- db_creator

\* db_creator.py:7-9
CROP_FILE == "raw_crop_data.csv"
RAIN_FILE == "raw_rainfall_data.csv"
DB_FILE == "data.gov.db"
\* db_creator.py:12-13, 59, 110
CROP_API_URL == "https.api.data.gov.in/resource/35be999b-0208-4354-b557-f6ca9a5355de"
RAIN_API_URL == "https.api.data.gov.in/resource/6c05cd1b-ed59-40c2-bc31-e314f39c6971"
CROP_SOURCE_NAME == "District-wise, season-wise crop production statistics"
RAIN_SOURCE_NAME == "Daily District-wise Rainfall Data (Aggregated to Annual)"

\* A cell of a raw CSV file is the sequence of its characters; <<>> is the
\* empty cell, which read_csv reads as missing. The characters of the model's
\* cells, in code-point order:
Alphabet == <<" ", "0", "1", "2", "5", "7", "9", "B", "G", "N", "P", "R",
              "a", "h", "i", "j", "n", "o", "r", "x">>
Digits == <<"0", "1", "2", "3", "4", "5", "6", "7", "8", "9">>

CharCode(c) == CHOOSE i \in 1..Len(Alphabet) : Alphabet[i] = c
IsDigit(c) == \E i \in 1..Len(Digits) : Digits[i] = c
DigitValue(c) == (CHOOSE i \in 1..Len(Digits) : Digits[i] = c) - 1

\* A numeric value of a frame: a number or NaN.
NaN == [nan |-> TRUE, val |-> 0]
Num(v) == [nan |-> FALSE, val |-> v]

RECURSIVE DecimalValue(_)
DecimalValue(cell) ==
    IF cell = <<>> THEN 0
    ELSE 10 * DecimalValue(SubSeq(cell, 1, Len(cell) - 1)) + DigitValue(cell[Len(cell)])

\* pd.to_numeric(col, errors='coerce') on one cell: the number the cell
\* spells, NaN for a missing cell and for one that spells no number.
to_numeric(cell) ==
    IF cell # <<>> /\ \A i \in 1..Len(cell) : IsDigit(cell[i])
    THEN Num(DecimalValue(cell))
    ELSE NaN

RECURSIVE lstrip(_)
lstrip(cell) ==
    IF cell # <<>> /\ cell[1] = " " THEN lstrip(Tail(cell)) ELSE cell
RECURSIVE rstrip(_)
rstrip(cell) ==
    IF cell # <<>> /\ cell[Len(cell)] = " "
    THEN rstrip(SubSeq(cell, 1, Len(cell) - 1)) ELSE cell
\* .str.strip()
strip(cell) == rstrip(lstrip(cell))

\* .astype(str) on a column read_csv gave: a missing cell (NaN) becomes the
\* string "nan", a string stays what it is.
astype_str(cell) == IF cell = <<>> THEN <<"n", "a", "n">> ELSE cell

\* What a processing function returns for a missing file.
None == [none |-> TRUE, rows |-> <<>>, dropped |-> 0]
Frame(rows, dropped) == [none |-> FALSE, rows |-> rows, dropped |-> dropped]

\* db_creator.py:29-48: rename, strip the string columns, coerce the numeric
\* ones.
CropRenamed(r) ==
    [state |-> strip(astype_str(r.state_name)),
     district |-> strip(astype_str(r.district_name)),
     year |-> r.crop_year,
     season |-> strip(astype_str(r.season)),
     crop |-> strip(astype_str(r.crop)),
     area_hectares |-> to_numeric(r.area_),
     production_tonnes |-> to_numeric(r.production_)]

\* db_creator.py:53  df.dropna(subset=['production_tonnes'])
DropNaOnArea(df) == SelectSeq(df, LAMBDA r : ~r.area_hectares.nan)
DropNa(df) == SelectSeq(df, LAMBDA r : ~r.production_tonnes.nan)

\* db_creator.py:58-64
CropFinal(r) ==
    [state |-> r.state, district |-> r.district, year |-> r.year,
     season |-> r.season, crop |-> r.crop, area_hectares |-> r.area_hectares,
     production_tonnes |-> r.production_tonnes,
     source_name |-> CROP_SOURCE_NAME, source_url |-> CROP_API_URL]

\* db_creator.py:17-67
process_crop_dataEmptyOnMissing(file) ==
    LET df == [i \in 1..Len(file.rows) |-> CropRenamed(file.rows[i])]
        kept == DropNa(df)
    IN  Frame([i \in 1..Len(kept) |-> CropFinal(kept[i])], Len(df) - Len(kept))
process_crop_data(file) ==
    IF ~file.exists THEN None
    ELSE LET df == [i \in 1..Len(file.rows) |-> CropRenamed(file.rows[i])]
             original_count == Len(df)
             kept == DropNa(df)
         IN  Frame([i \in 1..Len(kept) |-> CropFinal(kept[i])],
                   original_count - Len(kept))

\* db_creator.py:97  .replace('NR', 0): the cell that is exactly NR.
ReplaceNR(cell) == IF cell = <<"N", "R">> THEN <<"0">> ELSE cell
\* db_creator.py:101  .fillna(0)
FillNa(x) == IF x.nan THEN Num(0) ELSE x

\* db_creator.py:81-101
RainRenamed(r) ==
    [state |-> strip(astype_str(r.State)),
     district |-> strip(astype_str(r.District)),
     year |-> r.Year,
     rainfall_mm |-> FillNa(to_numeric(ReplaceNR(r.Avg_rainfall)))]

\* The order of two strings by code points, as pandas sorts group keys.
RECURSIVE StrLess(_, _)
StrLess(a, b) ==
    IF b = <<>> THEN FALSE
    ELSE IF a = <<>> THEN TRUE
    ELSE IF a[1] # b[1] THEN CharCode(a[1]) < CharCode(b[1])
    ELSE StrLess(Tail(a), Tail(b))

\* A group key is <<state, district, year>>.
KeyLess(k, l) ==
    \/ StrLess(k[1], l[1])
    \/ k[1] = l[1] /\ StrLess(k[2], l[2])
    \/ k[1] = l[1] /\ k[2] = l[2] /\ k[3] < l[3]

RECURSIVE SortKeys(_)
SortKeys(keys) ==
    IF keys = {} THEN <<>>
    ELSE LET first == CHOOSE k \in keys : \A l \in keys \ {k} : KeyLess(k, l)
         IN  <<first>> \o SortKeys(keys \ {first})

RECURSIVE SumRainAll(_, _)
SumRainAll(df, k) ==
    IF df = <<>> THEN 0 ELSE df[1].rainfall_mm.val + SumRainAll(Tail(df), k)
RECURSIVE SumRain(_, _)
\* The sum of rainfall_mm over the rows of df with key k.
SumRain(df, k) ==
    IF df = <<>> THEN 0
    ELSE (IF <<df[1].state, df[1].district, df[1].year.val>> = k /\ ~df[1].year.nan
          THEN df[1].rainfall_mm.val ELSE 0)
         + SumRain(Tail(df), k)

\* db_creator.py:105-111  groupby(['state', 'district', 'year']).sum():
\* one row per key, keys sorted, rows with a missing key value left out.
GroupBySum(df) ==
    LET keys == {<<df[i].state, df[i].district, df[i].year.val>> :
                    i \in {j \in 1..Len(df) : ~df[j].year.nan}}
        sorted == SortKeys(keys)
    IN  [i \in 1..Len(sorted) |->
            [state |-> sorted[i][1], district |-> sorted[i][2], year |-> sorted[i][3],
             annual_rainfall_mm |-> SumRain(df, sorted[i]),
             source_name |-> RAIN_SOURCE_NAME, source_url |-> RAIN_API_URL]]

\* db_creator.py:69-114
process_rainfall_data(file) ==
    IF ~file.exists THEN None
    ELSE Frame(GroupBySum([i \in 1..Len(file.rows) |-> RainRenamed(file.rows[i])]), 0)

NoDb == [exists |-> FALSE, tables |-> <<>>]
\* A table of the store: its name and its rows. The store's tables are kept
\* as a sequence of at most one table per name.
TableNames(d) == {d.tables[i].name : i \in 1..Len(d.tables)}

\* DataFrame.to_sql(name, conn, if_exists="replace"): the table of that name
\* is dropped and created anew with the frame's rows; the others stay.
to_sqlAlone(d, name, rows) ==
    [exists |-> TRUE, tables |-> <<[name |-> name, rows |-> rows]>>]
to_sql(d, name, rows) ==
    [exists |-> TRUE,
     tables |-> Append(SelectSeq(d.tables, LAMBDA t : t.name # name),
                       [name |-> name, rows |-> rows])]

\* db_creator.py:124
BothCleanEither(c, r) == ~c.none \/ ~r.none
BothClean(c, r) == ~c.none /\ ~r.none

\* db_creator.py:120
DbProcessCrop ==
    /\ d_pc = "crop"
    /\ read_log' = Append(read_log, CROP_FILE)
    /\ df_crop_clean' = [none |-> process_crop_data(crop_csv).none,
                         rows |-> process_crop_data(crop_csv).rows]
    /\ dropped_count' = process_crop_data(crop_csv).dropped
    /\ d_pc' = "rain"
    /\ UNCHANGED <<crop_csv, rain_csv, df_rain_clean, db, db_before, db_ops,
                   run, prev_end,
                   fetchVars, mainVars, chatVars>>

\* db_creator.py:121
DbProcessRain ==
    /\ d_pc = "rain"
    /\ read_log' = Append(read_log, RAIN_FILE)
    /\ df_rain_clean' = [none |-> process_rainfall_data(rain_csv).none,
                         rows |-> process_rainfall_data(rain_csv).rows]
    /\ d_pc' = "check"
    /\ UNCHANGED <<crop_csv, rain_csv, df_crop_clean, dropped_count, db, db_before,
                   db_ops, run, prev_end,
                   fetchVars, mainVars, chatVars>>

\* db_creator.py:124 and 148-149
DbCheck ==
    /\ d_pc = "check"
    /\ d_pc' = IF BothClean(df_crop_clean, df_rain_clean) THEN "remove" ELSE "build_failed"
    /\ UNCHANGED <<crop_csv, rain_csv, df_crop_clean, df_rain_clean, dropped_count,
                   db, db_before, read_log, db_ops, run, prev_end,
                   fetchVars, mainVars, chatVars>>

\* db_creator.py:127-129: os.remove of an existing file; an OSError it
\* raises is caught at line 146.
DbRemoveOld(ok) ==
    /\ d_pc = "remove"
    /\ IF ~db.exists
       THEN /\ d_pc' = "connect"
            /\ UNCHANGED <<db, db_ops>>
       ELSE IF ok
       THEN /\ db' = NoDb
            /\ db_ops' = Append(db_ops, "remove")
            /\ d_pc' = "connect"
       ELSE /\ d_pc' = "save_error"
            /\ db_ops' = Append(db_ops, "remove failed")
            /\ UNCHANGED db
    /\ UNCHANGED <<crop_csv, rain_csv, df_crop_clean, df_rain_clean, dropped_count,
                   db_before, read_log, run, prev_end,
                   fetchVars, mainVars, chatVars>>

\* db_creator.py:131: sqlite3.connect creates the file, empty, when it is
\* not there.
DbConnect(ok) ==
    /\ d_pc = "connect"
    /\ IF ok
       THEN /\ db' = IF db.exists THEN db ELSE [exists |-> TRUE, tables |-> <<>>]
            /\ db_ops' = Append(db_ops, "connect")
            /\ d_pc' = "save_crop"
       ELSE /\ d_pc' = "save_error"
            /\ db_ops' = Append(db_ops, "connect failed")
            /\ UNCHANGED db
    /\ UNCHANGED <<crop_csv, rain_csv, df_crop_clean, df_rain_clean, dropped_count,
                   db_before, read_log, run, prev_end,
                   fetchVars, mainVars, chatVars>>

\* db_creator.py:135: to_sql commits the table, or raises and leaves the
\* store as it was (None has no to_sql: an AttributeError).
DbSaveCrop(ok) ==
    /\ d_pc = "save_crop"
    /\ IF ok /\ ~df_crop_clean.none
       THEN /\ db' = to_sql(db, "agriculture_production", df_crop_clean.rows)
            /\ db_ops' = Append(db_ops, "to_sql agriculture_production")
            /\ d_pc' = "save_rain"
       ELSE /\ d_pc' = "save_error"
            /\ db_ops' = Append(db_ops, "to_sql failed")
            /\ UNCHANGED db
    /\ UNCHANGED <<crop_csv, rain_csv, df_crop_clean, df_rain_clean, dropped_count,
                   db_before, read_log, run, prev_end,
                   fetchVars, mainVars, chatVars>>

\* db_creator.py:139
DbSaveRain(ok) ==
    /\ d_pc = "save_rain"
    /\ IF ok /\ ~df_rain_clean.none
       THEN /\ db' = to_sql(db, "climate_rainfall", df_rain_clean.rows)
            /\ db_ops' = Append(db_ops, "to_sql climate_rainfall")
            /\ d_pc' = "close"
       ELSE /\ d_pc' = "save_error"
            /\ db_ops' = Append(db_ops, "to_sql failed")
            /\ UNCHANGED db
    /\ UNCHANGED <<crop_csv, rain_csv, df_crop_clean, df_rain_clean, dropped_count,
                   db_before, read_log, run, prev_end,
                   fetchVars, mainVars, chatVars>>

\* db_creator.py:142-144
DbClose ==
    /\ d_pc = "close"
    /\ db_ops' = Append(db_ops, "close")
    /\ d_pc' = "complete"
    /\ UNCHANGED <<crop_csv, rain_csv, df_crop_clean, df_rain_clean, dropped_count,
                   db, db_before, read_log, run, prev_end,
                   fetchVars, mainVars, chatVars>>

\* db_creator.py:151-152: the script is run again, on the raw files and the
\* store the run before left.
DbRerun ==
    /\ d_pc \in {"complete", "build_failed", "save_error"}
    /\ run < MaxRuns
    /\ run' = run + 1
    /\ prev_end' = d_pc
    /\ d_pc' = "crop"
    /\ df_crop_clean' = [none |-> TRUE, rows |-> <<>>]
    /\ df_rain_clean' = [none |-> TRUE, rows |-> <<>>]
    /\ dropped_count' = 0
    /\ db_before' = db
    /\ read_log' = <<>>
    /\ db_ops' = <<>>
    /\ UNCHANGED <<crop_csv, rain_csv, db, fetchVars, mainVars, chatVars>>

\* ------------------------------------------------------------------ app.main

\* A string is the sequence of its pieces. A piece of the agent's output is
\* a brace, a comma, a member of a JSON object ("A" for "answer": "...",
\* "S" for "sources": [...]) or a stretch of other text ("x").
OutputChars == {"{", "}", "A", "S", ",", "x"}

\* The value of the "answer" member and of the "sources" member.
ANSWER_TEXT == "the answer"
SOURCE_URL == "the source"

\* app.py:246: the default of data.get("answer", ...)
NO_ANSWER == "Sorry, I couldn't find an answer in the expected format."
\* app.py:250
InvalidJsonMessage(out) ==
    <<"Error: Agent returned invalid/incomplete JSON. (Raw response: ">> \o out \o <<")">>
\* app.py:274
error_message(e) == <<"An error occurred: ", e, ". Please check your query or API key.">>

\* str.find and str.rfind of one character: the 0-based index, -1 when the
\* character is not there.
find(s, c) ==
    IF \E i \in 1..Len(s) : s[i] = c
    THEN (CHOOSE i \in 1..Len(s) : s[i] = c /\ \A j \in 1..(i - 1) : s[j] # c) - 1
    ELSE -1
rfind(s, c) ==
    IF \E i \in 1..Len(s) : s[i] = c
    THEN (CHOOSE i \in 1..Len(s) : s[i] = c /\ \A j \in (i + 1)..Len(s) : s[j] # c) - 1
    ELSE -1

\* s[a:b] for a >= 0 and b >= 0: empty when b <= a.
Slice(s, a, b) == SubSeq(s, a + 1, Min(b, Len(s)))

\* The agent's output (app.py:217): a str, a list of parts (a dict with a
\* 'text' key, a str, or something else), or anything else, None when the
\* response has no "output".
StrOutput(s) == [type |-> "str", text |-> s, parts |-> <<>>]
ListOutput(ps) == [type |-> "list", text |-> <<>>, parts |-> ps]
OtherOutput == [type |-> "other", text |-> <<"None">>, parts |-> <<>>]
Part(t, s) == [type |-> t, text |-> s]

RECURSIVE JoinParts(_)
\* app.py:221-227
JoinParts(ps) ==
    IF ps = <<>> THEN <<>>
    ELSE (IF ps[1].type \in {"dict", "str"} THEN ps[1].text ELSE <<>>)
         \o JoinParts(Tail(ps))

\* app.py:217-232; str(agent_output) in the last case
OutputStr(agent_output) ==
    IF agent_output.type = "list" THEN JoinParts(agent_output.parts)
    ELSE IF agent_output.type = "str" THEN agent_output.text
    ELSE agent_output.text

RECURSIVE ParseMembers(_, _)
\* The decoder after the opening brace or a comma, at s[i]: a member, then
\* the closing brace as the last piece or a comma and more.
ParseMembers(s, i) ==
    IF i + 1 > Len(s) THEN FALSE
    ELSE IF s[i] \notin {"A", "S"} THEN FALSE
    ELSE IF s[i + 1] = "}" THEN i + 1 = Len(s)
    ELSE IF s[i + 1] = "," THEN ParseMembers(s, i + 2)
    ELSE FALSE

\* json.loads: the keys of the object the string spells, or JSONDecodeError
\* (ok is FALSE) when it spells none, the empty string included.
json_loads(s) ==
    IF /\ Len(s) >= 2
       /\ s[1] = "{"
       /\ IF s[2] = "}" THEN Len(s) = 2 ELSE ParseMembers(s, 2)
    THEN [ok |-> TRUE, keys |-> {s[i] : i \in 1..Len(s)} \cap {"A", "S"}]
    ELSE [ok |-> FALSE, keys |-> {}]

\* app.py:235-255: final_answer and sources from output_str.
ParseOutput(out) ==
    LET json_start == find(out, "{")
        json_end == rfind(out, "}") + 1
    IN  IF json_start # -1 /\ json_end # -1
        THEN LET loaded == json_loads(Slice(out, json_start, json_end))
             IN  IF loaded.ok
                 THEN [final_answer |-> IF "A" \in loaded.keys THEN <<ANSWER_TEXT>>
                                        ELSE <<NO_ANSWER>>,
                       sources |-> IF "S" \in loaded.keys THEN <<SOURCE_URL>> ELSE <<>>]
                 ELSE [final_answer |-> out, sources |-> <<>>]
        ELSE [final_answer |-> InvalidJsonMessage(out), sources |-> <<>>]

\* app.py:201  st.session_state.messages.append({"role": "user", ...})
AppendUserSkip(msgs, p) == msgs
AppendUser(msgs, p) == Append(msgs, [role |-> "user", content |-> p])

\* app.py:268 and 276  st.session_state.messages.append({"role": "assistant", ...})
AppendAssistantFresh(msgs, content) == <<[role |-> "assistant", content |-> content]>>
AppendAssistant(msgs, content) == Append(msgs, [role |-> "assistant", content |-> content])

\* app.py:199-207: a question is submitted; the script reruns with it.
ChatSubmit(p) ==
    /\ c_pc = "idle"
    /\ asked < MaxQuestions
    /\ asked' = asked + 1
    /\ history_before' = messages
    /\ messages' = AppendUser(messages, p)
    /\ prompt' = p
    /\ output_str' = <<>>
    /\ final_answer' = <<>>
    /\ sources' = <<>>
    /\ invocation' = "none"
    /\ c_pc' = "invoke"
    /\ UNCHANGED <<fetchVars, mainVars, dbVars>>

\* app.py:211-270: the agent returned; the output is parsed, the reply is
\* shown and appended.
AgentReturns(agent_output) ==
    /\ c_pc = "invoke"
    /\ output_str' = OutputStr(agent_output)
    /\ final_answer' = ParseOutput(OutputStr(agent_output)).final_answer
    /\ sources' = ParseOutput(OutputStr(agent_output)).sources
    /\ messages' = AppendAssistant(messages, ParseOutput(OutputStr(agent_output)).final_answer)
    /\ invocation' = "returned"
    /\ c_pc' = "idle"
    /\ UNCHANGED <<prompt, history_before, asked, fetchVars, mainVars, dbVars>>

\* app.py:211-214 and 272-278: get_sql_agent or invoke raised e.
AgentRaises(e) ==
    /\ c_pc = "invoke"
    /\ messages' = AppendAssistant(messages, error_message(e))
    /\ invocation' = "raised"
    /\ c_pc' = "idle"
    /\ UNCHANGED <<prompt, output_str, final_answer, sources, history_before, asked,
                   fetchVars, mainVars, dbVars>>

\* ----------------------------------------------------------- specifications

\* The parts of the state a specification does not run.
FetchIdle ==
    /\ fn = "fetch_paginated_data"
    /\ query = 0
    /\ pc = "idle"
    /\ all_records = <<>>
    /\ offset = 0
    /\ current_retry = 0
    /\ response = NoResponse
    /\ data = NoData
    /\ ret = NoReturn
    /\ reqlog = <<>>
    /\ slept = 0
    /\ total_records = 0

MainIdle ==
    /\ m_pc = "idle"
    /\ yi = 1
    /\ si = 1
    /\ all_rainfall_records = <<>>
    /\ out_file = [exists |-> FALSE, rows |-> <<>>]
    /\ queried = <<>>
    /\ gave_up = 0

NoFile == [exists |-> FALSE, rows |-> <<>>]

DbIdle ==
    /\ d_pc = "idle"
    /\ crop_csv = NoFile
    /\ rain_csv = NoFile
    /\ df_crop_clean = [none |-> TRUE, rows |-> <<>>]
    /\ df_rain_clean = [none |-> TRUE, rows |-> <<>>]
    /\ dropped_count = 0
    /\ db = NoDb
    /\ db_before = NoDb
    /\ read_log = <<>>
    /\ db_ops = <<>>
    /\ run = 1
    /\ prev_end = "none"

ChatIdle ==
    /\ c_pc = "idle"
    /\ messages = <<>>
    /\ prompt = <<>>
    /\ output_str = <<>>
    /\ final_answer = <<>>
    /\ sources = <<>>
    /\ invocation = "none"
    /\ history_before = <<>>
    /\ asked = 0

\* ---- a stand-alone call of either fetch function, any server

Init ==
    /\ fn \in {"fetch_paginated_data", "fetch_all_data"}
    /\ query = 0
    /\ pc = "request"
    /\ all_records = <<>>
    /\ offset = 0
    /\ current_retry = 0
    /\ response = NoResponse
    /\ data = NoData
    /\ ret = NoReturn
    /\ reqlog = <<>>
    /\ slept = 0
    /\ total_records = 0
    /\ MainIdle
    /\ DbIdle
    /\ ChatIdle

\* The sizes of the pages that are neither empty nor full.
ShortSizes == {1, 400, 999}

\* What the server may answer to the request at offset off.
PageSizes(off, fullPages) ==
    {0} \cup ShortSizes \cup (IF off < fullPages * limit THEN {limit} ELSE {})

\* What a failed request carries: no response (0), 403, or another status
\* that raise_for_status raises for.
Statuses == {0, FORBIDDEN, 500}

Next ==
    \/ \E n \in PageSizes(offset, MaxFullPages) : RequestOk(n)
    \/ RequestFatalBody
    \/ \E s \in Statuses : RequestError(s)
    \/ RequestUnexpected
    \/ ProcessPage

Spec == Init /\ [][Next]_vars

\* ---- a stand-alone call against the paging server

\* A server that holds total_records records and answers each offset with
\* the records from that offset up to the page size (the `limit` parameter).
ServerPageSize(total, off) == Min(limit, Max(0, total - off))

InitServer ==
    /\ fn \in {"fetch_paginated_data", "fetch_all_data"}
    /\ query = 0
    /\ pc = "request"
    /\ all_records = <<>>
    /\ offset = 0
    /\ current_retry = 0
    /\ response = NoResponse
    /\ data = NoData
    /\ ret = NoReturn
    /\ reqlog = <<>>
    /\ slept = 0
    /\ total_records \in 0..(MaxFullPages * limit)
    /\ MainIdle
    /\ DbIdle
    /\ ChatIdle

NextServer ==
    \/ RequestOk(ServerPageSize(total_records, offset))
    \/ ProcessPage

\* The interpreter runs the loop on: a step that can be taken is taken.
SpecServer == InitServer /\ [][NextServer]_vars /\ WF_vars(NextServer)

\* ---- rainfall.main

\* A file left by an earlier run: one record of another query.
OldFile == [exists |-> TRUE, rows |-> <<RecordId(0, 0)>>]

InitMain ==
    /\ FetchIdle
    /\ m_pc = "loop"
    /\ yi = 1
    /\ si = 1
    /\ all_rainfall_records = <<>>
    /\ out_file \in {[exists |-> FALSE, rows |-> <<>>], OldFile}
    /\ queried = <<>>
    /\ gave_up = 0
    /\ DbIdle
    /\ ChatIdle

\* Under rainfall.main the server answers a query with an empty page or with
\* one full page followed by an empty one.
MainPageSizes(off) == IF off = 0 THEN {0, limit} ELSE {0}

MainStatuses == {0, FORBIDDEN}

NextMain ==
    \/ MainCall
    \/ \E n \in MainPageSizes(offset) : RequestOk(n)
    \/ RequestFatalBody
    \/ \E s \in MainStatuses : RequestError(s)
    \/ ProcessPage
    \/ MainReturn
    \/ MainSave

SpecMain == InitMain /\ [][NextMain]_vars

\* ---- the raw files

SeqsUpTo(set, n) == UNION {[1..k -> set] : k \in 0..n}
FilesOf(rowChoices, n) ==
    {NoFile} \cup {[exists |-> TRUE, rows |-> r] : r \in SeqsUpTo(rowChoices, n)}

Goa == <<"G", "o", "a">>
GoaPadded == <<" ", "G", "o", "a", " ">>
Bihar == <<"B", "i", "h", "a", "r">>
Panaji == <<"P", "a", "n", "a", "j", "i">>

CropRow(st, area, production) ==
    [state_name |-> st, district_name |-> Panaji, crop_year |-> 2005,
     season |-> <<"R", "a", "b", "i">>, crop |-> <<"R", "i", "x">>,
     area_ |-> area, production_ |-> production]

\* Production cells: missing, two numbers, one that spells no number.
ProductionCells == {<<>>, <<"1", "2">>, <<"7">>, <<"x", "1">>}

CropRowChoices ==
    {CropRow(st, a, p) : st \in {Goa, GoaPadded}, a \in {<<"5">>, <<>>},
                         p \in ProductionCells}

RainRow(st, year, rain) ==
    [State |-> st, District |-> Panaji, Year |-> Num(year), Avg_rainfall |-> rain]

\* Rainfall cells: two numbers, the sentinel, a missing cell, no number.
RainfallCells == {<<"1", "0", "0">>, <<"7">>, <<"N", "R">>, <<>>, <<"x">>}

\* A row whose Year cell is missing.
RainRowNoYear(st, rain) ==
    [State |-> st, District |-> Panaji, Year |-> NaN, Avg_rainfall |-> rain]

\* Rows of three states and two years, rows without a year, and a row
\* without a state.
RainRowChoices ==
    {RainRow(st, y, r) : st \in {Goa, GoaPadded, Bihar}, y \in {2019, 2020},
                         r \in RainfallCells}
    \cup {RainRowNoYear(Goa, r) : r \in {<<"1", "0", "0">>, <<"N", "R">>}}
    \cup {RainRow(<<>>, 2019, <<"7">>)}

\* ---- process_crop_data alone, on every raw crop file of up to MaxRows rows

InitCrop ==
    /\ FetchIdle
    /\ MainIdle
    /\ d_pc = "crop"
    /\ crop_csv \in FilesOf(CropRowChoices, MaxRows)
    /\ rain_csv = NoFile
    /\ df_crop_clean = [none |-> TRUE, rows |-> <<>>]
    /\ df_rain_clean = [none |-> TRUE, rows |-> <<>>]
    /\ dropped_count = 0
    /\ db = NoDb
    /\ db_before = NoDb
    /\ read_log = <<>>
    /\ db_ops = <<>>
    /\ run = 1
    /\ prev_end = "none"
    /\ ChatIdle

SpecCrop == InitCrop /\ [][DbProcessCrop]_vars

\* ---- process_rainfall_data alone, on every raw rainfall file of up to
\* MaxRows rows

InitRain ==
    /\ FetchIdle
    /\ MainIdle
    /\ d_pc = "rain"
    /\ crop_csv = NoFile
    /\ rain_csv \in FilesOf(RainRowChoices, MaxRows)
    /\ df_crop_clean = [none |-> TRUE, rows |-> <<>>]
    /\ df_rain_clean = [none |-> TRUE, rows |-> <<>>]
    /\ dropped_count = 0
    /\ db = NoDb
    /\ db_before = NoDb
    /\ read_log = <<>>
    /\ db_ops = <<>>
    /\ run = 1
    /\ prev_end = "none"
    /\ ChatIdle

SpecRain == InitRain /\ [][DbProcessRain]_vars

\* ---- db_creator.main

\* A store left by an earlier build.
OldDb ==
    [exists |-> TRUE,
     tables |-> <<[name |-> "agriculture_production",
                   rows |-> process_crop_data(
                       [exists |-> TRUE, rows |-> <<CropRow(Bihar, <<"5">>, <<"9">>)>>]).rows],
                  [name |-> "climate_rainfall",
                   rows |-> process_rainfall_data(
                       [exists |-> TRUE, rows |-> <<RainRow(Bihar, 2018, <<"9">>)>>]).rows]>>]

DbCropRowChoices == {CropRow(Goa, <<"5">>, p) : p \in {<<"1", "2">>, <<>>}}
DbRainRowChoices == {RainRow(Goa, 2019, r) : r \in {<<"1", "0", "0">>, <<"N", "R">>}}

InitDb ==
    /\ FetchIdle
    /\ MainIdle
    /\ d_pc = "crop"
    /\ crop_csv \in FilesOf(DbCropRowChoices, MaxDbRows)
    /\ rain_csv \in FilesOf(DbRainRowChoices, MaxDbRows)
    /\ df_crop_clean = [none |-> TRUE, rows |-> <<>>]
    /\ df_rain_clean = [none |-> TRUE, rows |-> <<>>]
    /\ dropped_count = 0
    /\ db \in {NoDb, OldDb}
    /\ db_before = db
    /\ read_log = <<>>
    /\ db_ops = <<>>
    /\ run = 1
    /\ prev_end = "none"
    /\ ChatIdle

NextDb ==
    \/ DbProcessCrop
    \/ DbProcessRain
    \/ DbCheck
    \/ \E ok \in BOOLEAN : DbRemoveOld(ok)
    \/ \E ok \in BOOLEAN : DbConnect(ok)
    \/ \E ok \in BOOLEAN : DbSaveCrop(ok)
    \/ \E ok \in BOOLEAN : DbSaveRain(ok)
    \/ DbClose
    \/ DbRerun

SpecDb == InitDb /\ [][NextDb]_vars

\* ---- the chat loop, one question, every output string of up to
\* MaxOutputLen pieces

InitParse ==
    /\ FetchIdle
    /\ MainIdle
    /\ DbIdle
    /\ ChatIdle

Question == <<"What were the top 5 most produced crops in 'Punjab' in 2013?">>

NextParse ==
    \/ asked = 0 /\ ChatSubmit(Question)
    \/ \E s \in SeqsUpTo(OutputChars, MaxOutputLen) : AgentReturns(StrOutput(s))

SpecParse == InitParse /\ [][NextParse]_vars

\* ---- the chat loop, up to MaxQuestions questions

Prompts == {Question, <<"Correlate Rice production and rainfall in 2010.">>}

\* An answer with its sources inside other text, an object without an
\* answer, no object, a truncated object, an answer in fragments, no output.
AgentOutputs ==
    {StrOutput(<<"x", "{", "A", ",", "S", "}", "x">>),
     StrOutput(<<"{", "S", "}">>),
     StrOutput(<<"x">>),
     StrOutput(<<"{", "A">>),
     ListOutput(<<Part("dict", <<"{">>), Part("str", <<"A">>), Part("other", <<"x">>),
                  Part("dict", <<"}">>)>>),
     OtherOutput}

\* What str(e) is for the exceptions of the model.
Exceptions == {"429 Resource has been exhausted", "no such table: rainfall"}

InitChat ==
    /\ FetchIdle
    /\ MainIdle
    /\ DbIdle
    /\ ChatIdle

NextChat ==
    \/ \E p \in Prompts : ChatSubmit(p)
    \/ \E o \in AgentOutputs : AgentReturns(o)
    \/ \E e \in Exceptions : AgentRaises(e)

SpecChat == InitChat /\ [][NextChat]_vars

\* ------------------------------------------------------------------- claims

\* C1: the records a paginated fetch returns are the concatenation, in
\* increasing offset order, of the pages successfully received: the length is
\* the sum of the per-page counts and no offset contributes more than once,
\* a retried offset included.
C1_ReturnsConcatenationOfPages ==
    /\ pc \in {"request", "done"} => all_records = Received(query, reqlog)
    /\ Returned =>
          /\ ret.records = Received(query, reqlog)
          /\ Len(ret.records) = SumCounts(reqlog)
    /\ \A i, j \in 1..Len(reqlog) :
          (i < j /\ reqlog[i].outcome = "records" /\ reqlog[j].outcome = "records")
              => reqlog[i].offset < reqlog[j].offset

\* A fetch that returned two pages, the second received on a retry.
C1_Witness ==
    /\ Returned
    /\ Len(ret.records) > limit
    /\ \E i \in 1..(Len(reqlog) - 1) :
          /\ reqlog[i].outcome = "error"
          /\ reqlog[i + 1].outcome = "records"
          /\ reqlog[i + 1].offset = reqlog[i].offset
          /\ reqlog[i + 1].n > 0

\* C2: the fetch stops at the first received page that is empty or shorter
\* than the page size: no request follows such a page; a full page is followed
\* by a request at offset + 1000, never by the end of the fetch; pages of
\* sizes [1000, 1000, 400] take exactly 3 requests and return 2400 records.
C2_StopsAtFirstShortPage ==
    /\ \A i \in 1..(Len(reqlog) - 1) :
          reqlog[i].outcome = "records" =>
              /\ reqlog[i].n = limit
              /\ reqlog[i + 1].offset = reqlog[i].offset + limit
    /\ (pc = "request" /\ reqlog # <<>> /\ reqlog[Len(reqlog)].outcome = "records") =>
          /\ reqlog[Len(reqlog)].n = limit
          /\ offset = reqlog[Len(reqlog)].offset + limit
    /\ (Returned /\ reqlog # <<>> /\ reqlog[Len(reqlog)].outcome = "records") =>
          reqlog[Len(reqlog)].n < limit
    /\ (OkSizes(reqlog) = <<1000, 1000, 400>> /\ Failures(reqlog) = 0) =>
          /\ Len(reqlog) = 3
          /\ pc \in {"page", "done"}
          /\ pc = "done" => (Returned /\ Len(ret.records) = 2400)

\* The fetch of pages [1000, 1000, 400] has returned.
C2_Witness ==
    /\ Returned
    /\ OkSizes(reqlog) = <<1000, 1000, 400>>
    /\ Len(reqlog) = 3
    /\ Len(ret.records) = 2400

\* ceil(a / b)
CeilDiv(a, b) == (a + b - 1) \div b

\* C3: against the paging server the fetch terminates, after at most
\* ceil(total_records / limit) + 1 page requests.
C3_TerminatesWithinPageBound ==
    /\ [](Len(reqlog) <= CeilDiv(total_records, limit) + 1)
    /\ <>(pc = "done")

\* A result set of whole pages: the fetch needed the extra, empty page.
C3_Witness ==
    /\ Returned
    /\ total_records >= limit
    /\ Len(reqlog) = CeilDiv(total_records, limit) + 1
    /\ Len(ret.records) = total_records

\* A request that ended in a transport error (no response: status 0) was made.
TransportErrorStep ==
    /\ Len(reqlog') = Len(reqlog) + 1
    /\ response'.kind = "error"
    /\ response'.status = 0

\* C4: an offset is attempted at most max_retries (5) times; a transport
\* error is followed, after the backoff of 3 seconds, by another attempt at
\* the same offset while attempts are left; when the 5 attempts of an offset
\* have all failed the fetch makes no further request and returns, as a value,
\* exactly the records of the earlier pages.
C4_BoundedRetryThenPartialResult ==
    /\ [](/\ \A i \in 1..Len(reqlog) : Attempts(reqlog, reqlog[i].offset) <= max_retries
          /\ current_retry \in 0..(max_retries - 1)
          /\ \A i \in 1..(Len(reqlog) - 1) :
                reqlog[i].outcome = "error" => reqlog[i + 1].offset = reqlog[i].offset
          /\ \A i \in 1..Len(reqlog) :
                FailuresAt(reqlog, reqlog[i].offset) = max_retries =>
                    /\ reqlog[Len(reqlog)].offset = reqlog[i].offset
                    /\ reqlog[Len(reqlog)].outcome = "error"
                    /\ Returned
                    /\ ret.records = Received(query, reqlog)
                    /\ ret.records = all_records)
    /\ [][TransportErrorStep =>
            /\ slept' = slept + backoff
            /\ offset' = offset
            /\ all_records' = all_records
            /\ IF FailuresAt(reqlog', offset) < max_retries
               THEN pc' = "request" /\ ret' = NoReturn
               ELSE pc' = "done" /\ ret' = ReturnOf(fn, all_records)]_vars

\* The second page failed 5 times, the last time on a transport error: the
\* first page is returned.
C4_Witness ==
    /\ Returned
    /\ FailuresAt(reqlog, limit) = max_retries
    /\ response.status = 0
    /\ Len(ret.records) = limit
    /\ slept = max_retries * backoff

\* C5: in fetch_paginated_data an HTTP 403 is not retried: the call returns
\* the fatal signal at once, with no records and no further attempt.
C5_ForbiddenIsFatal ==
    (fn = "fetch_paginated_data" /\ response.kind = "error" /\ response.status = FORBIDDEN)
        => (pc = "done" /\ ret = FATAL_ERROR)

\* The combinations in the order of the loops: year outer, state inner.
AllCombinations ==
    [k \in 1..(Len(YEARS_TO_FETCH) * Len(STATES_LIST)) |->
        <<YEARS_TO_FETCH[((k - 1) \div Len(STATES_LIST)) + 1],
          STATES_LIST[((k - 1) % Len(STATES_LIST)) + 1]>>]

\* C6: rainfall.main calls the fetch for the combinations in loop order (year
\* outer, state inner), and once a call has returned the fatal signal the
\* only step main takes is to stop: no request and no call for a later
\* combination follows.
C6_FatalSignalStopsMain ==
    /\ [](/\ Len(queried) <= Len(AllCombinations)
          /\ queried = SubSeq(AllCombinations, 1, Len(queried))
          /\ m_pc = "stopped" => (pc = "done" /\ ret = FATAL_ERROR))
    /\ [][(pc = "done" /\ ret = FATAL_ERROR) =>
            /\ m_pc' = "stopped"
            /\ queried' = queried
            /\ reqlog' = reqlog
            /\ all_rainfall_records' = all_rainfall_records
            /\ out_file' = out_file]_vars

\* main stopped on the fatal signal of the second of the four combinations.
C6_Witness ==
    /\ m_pc = "stopped"
    /\ ret = FATAL_ERROR
    /\ Len(queried) = 2
    /\ Len(queried) < Len(AllCombinations)

\* C7 as first stated: once a fetch has ended on exhausted retries, every
\* combination is still fetched and the file is written with all the records
\* of the run whenever there is at least one.
C7_ExhaustedRetriesNeverLoseTheRun ==
    (gave_up # 0 /\ m_pc \in {"done", "stopped"}) =>
        /\ queried = AllCombinations
        /\ all_rainfall_records # <<>> =>
              out_file = [exists |-> TRUE, rows |-> all_rainfall_records]

\* C7, amended: a fetch that ends on exhausted retries returns a list, main
\* keeps its records and goes on to the next combination in order; unless a
\* later fetch returns the fatal signal (main then stops, C6), every
\* combination is fetched and the file is written with all the records of
\* the run whenever there is at least one.
C7_ExhaustedRetriesArePartialNotFatal ==
    /\ [](/\ (gave_up # 0 /\ m_pc = "done") =>
                /\ queried = AllCombinations
                /\ all_rainfall_records # <<>> =>
                      out_file = [exists |-> TRUE, rows |-> all_rainfall_records]
          /\ (gave_up # 0 /\ m_pc = "stopped") => ret = FATAL_ERROR
          /\ (m_pc = "fetching" /\ pc = "done" /\ FetchGaveUp) =>
                ret = [kind |-> "list", records |-> Received(query, reqlog)])
    /\ [][(m_pc = "fetching" /\ pc = "done" /\ FetchGaveUp) =>
            /\ all_rainfall_records' = all_rainfall_records \o Received(query, reqlog)
            /\ m_pc' = IF Len(queried) < Len(AllCombinations) THEN "loop" ELSE "save"
            /\ QueryNumber(yi', si') =
                  IF Len(queried) < Len(AllCombinations) THEN query + 1 ELSE query]_vars

\* The first combination's fetch gave up after one page; the run went through
\* the other combinations and the file holds that page and later records.
C7_Witness ==
    /\ m_pc = "done"
    /\ gave_up = 1
    /\ queried = AllCombinations
    /\ out_file = [exists |-> TRUE, rows |-> all_rainfall_records]
    /\ Len(all_rainfall_records) > limit
    /\ all_rainfall_records[1] = RecordId(1, 0)
    /\ all_rainfall_records[limit] = RecordId(1, limit - 1)

\* C8: when either dataset yields no clean output, db_creator.main leaves
\* data.gov.db untouched: not removed, not opened, not written, so that its
\* content stays what the run found. (Nothing touches the store before both
\* cleanings are done either.)
C8_FailedCleaningLeavesStoreUntouched ==
    /\ d_pc \in {"crop", "rain", "check"} => (db = db_before /\ db_ops = <<>>)
    /\ (d_pc \notin {"idle", "crop", "rain"} /\ (df_crop_clean.none \/ df_rain_clean.none)) =>
          /\ d_pc \in {"check", "build_failed"}
          /\ db = db_before
          /\ db_ops = <<>>

\* The rainfall file was missing, the crop file was cleaned, and the store of
\* an earlier build is still there.
C8_Witness ==
    /\ d_pc = "build_failed"
    /\ ~df_crop_clean.none
    /\ df_rain_clean.none
    /\ db_before = OldDb
    /\ db = OldDb

\* C9: a dataset whose input file does not exist is cleaned to None without
\* an exception, and read_csv is still called on the other dataset's file in
\* the same run, whichever of the two files is missing; the run ends with the
\* build-failed message, not in the exception handler.
C9_MissingFileYieldsNoneAndOtherIsTried ==
    /\ (~crop_csv.exists /\ d_pc \notin {"idle", "crop"}) =>
          /\ df_crop_clean.none
          /\ d_pc \in {"rain", "check", "build_failed"}
          /\ d_pc # "rain" => read_log = <<CROP_FILE, RAIN_FILE>>
          /\ (d_pc # "rain" /\ rain_csv.exists) => ~df_rain_clean.none
    /\ (~rain_csv.exists /\ d_pc \notin {"idle", "crop", "rain"}) =>
          /\ df_rain_clean.none
          /\ d_pc \in {"check", "build_failed"}
          /\ read_log = <<CROP_FILE, RAIN_FILE>>
          /\ crop_csv.exists => ~df_crop_clean.none

\* The crop file was missing and the rainfall file was cleaned all the same.
C9_Witness ==
    /\ d_pc = "build_failed"
    /\ ~crop_csv.exists
    /\ rain_csv.exists
    /\ df_crop_clean.none
    /\ ~df_rain_clean.none
    /\ Len(df_rain_clean.rows) = 1
    /\ read_log = <<CROP_FILE, RAIN_FILE>>

\* The number a cell of the model's raw files spells, -1 when it spells none:
\* the cells listed one by one, apart from to_numeric.
NumberSpelled(cell) ==
    CASE cell = <<"1", "2">> -> 12
      [] cell = <<"7">> -> 7
      [] cell = <<"5">> -> 5
      [] cell = <<"9">> -> 9
      [] OTHER -> -1

\* C10: the output of process_crop_data has no row with a missing
\* production_tonnes; its rows are the input rows whose production value
\* spells a number, in input order; and it has as many rows as the input
\* less the reported dropped-row count.
C10_CropRowsWithProductionAreKept ==
    (d_pc = "rain" /\ crop_csv.exists) =>
        LET out == df_crop_clean.rows
            parsed == SelectSeq(crop_csv.rows, LAMBDA r : NumberSpelled(r.production_) >= 0)
        IN  /\ ~df_crop_clean.none
            /\ \A i \in 1..Len(out) : ~out[i].production_tonnes.nan
            /\ Len(out) = Len(parsed)
            /\ \A i \in 1..Len(out) :
                  /\ out[i].production_tonnes.val = NumberSpelled(parsed[i].production_)
                  /\ out[i].area_hectares.nan = (NumberSpelled(parsed[i].area_) < 0)
                  /\ out[i].state = Goa
            /\ Len(out) = Len(crop_csv.rows) - dropped_count

\* Of two rows the first, whose production spells no number, was dropped.
C10_Witness ==
    /\ d_pc = "rain"
    /\ Len(crop_csv.rows) = 2
    /\ NumberSpelled(crop_csv.rows[1].production_) < 0
    /\ crop_csv.rows[1].area_ = <<"5">>
    /\ crop_csv.rows[2].production_ = <<"1", "2">>
    /\ crop_csv.rows[2].area_ = <<>>
    /\ dropped_count = 1
    /\ Len(df_crop_clean.rows) = 1
    /\ df_crop_clean.rows[1].production_tonnes = Num(12)

\* The name a State or District cell of the model's raw files carries once
\* read and trimmed, the cells listed one by one, apart from strip.
NameSpelled(cell) ==
    CASE cell = GoaPadded -> Goa
      [] cell = <<>> -> <<"n", "a", "n">>
      [] OTHER -> cell

\* The rainfall a cell counts for: the number it spells, 0 for the sentinel,
\* a missing cell and a cell that spells no number.
RainSpelled(cell) ==
    CASE cell = <<"1", "0", "0">> -> 100
      [] cell = <<"7">> -> 7
      [] cell = <<"9">> -> 9
      [] OTHER -> 0

\* The key of a raw row and of an output row, as <<state, district, year>>,
\* the year a number or NaN.
InputKey(r) == <<NameSpelled(r.State), NameSpelled(r.District), r.Year>>
OutputKey(o) == <<o.state, o.district, Num(o.year)>>

RECURSIVE RainOfKey(_, _)
\* The rainfall of the raw rows of key k.
RainOfKey(rows, k) ==
    IF rows = <<>> THEN 0
    ELSE (IF InputKey(rows[1]) = k THEN RainSpelled(rows[1].Avg_rainfall) ELSE 0)
         + RainOfKey(Tail(rows), k)

\* C11 as first stated: for every raw rainfall file the output of
\* process_rainfall_data has exactly one row for each (state, district, year)
\* key of an input row and no other row, and the row's annual_rainfall_mm is
\* the sum of the rainfall values of the input rows of that key, NR, a
\* missing value and an unparseable value counting as 0.
C11_OneRowPerInputKeyWithItsSum ==
    (d_pc = "check" /\ rain_csv.exists) =>
        LET in == rain_csv.rows
            out == df_rain_clean.rows
        IN  /\ ~df_rain_clean.none
            /\ \A i \in 1..Len(in) :
                  Cardinality({j \in 1..Len(out) : OutputKey(out[j]) = InputKey(in[i])}) = 1
            /\ \A j \in 1..Len(out) :
                  /\ \E i \in 1..Len(in) : InputKey(in[i]) = OutputKey(out[j])
                  /\ out[j].annual_rainfall_mm = RainOfKey(in, OutputKey(out[j]))

\* C11, amended: the output has exactly one row for each (state, district,
\* year) key of an input row whose Year is present and no other row, the
\* names trimmed and a missing name read as "nan"; the row's
\* annual_rainfall_mm is the sum of the rainfall values of the input rows of
\* that key, NR, a missing value and an unparseable value counting as 0; an
\* input row whose Year is missing has no output row and counts in no sum.
C11_OneRowPerKeyWithYearAndItsSum ==
    (d_pc = "check" /\ rain_csv.exists) =>
        LET in == rain_csv.rows
            out == df_rain_clean.rows
            dated == {i \in 1..Len(in) : ~in[i].Year.nan}
        IN  /\ ~df_rain_clean.none
            /\ \A i \in dated :
                  Cardinality({j \in 1..Len(out) : OutputKey(out[j]) = InputKey(in[i])}) = 1
            /\ \A j \in 1..Len(out) :
                  /\ \E i \in dated : InputKey(in[i]) = OutputKey(out[j])
                  /\ out[j].annual_rainfall_mm = RainOfKey(in, OutputKey(out[j]))
            /\ Len(out) = Cardinality({InputKey(in[i]) : i \in dated})

\* The rows {Goa, Panaji, 2019, "100"} and {Goa, Panaji, 2019, "NR"}, the
\* first with a padded state name, gave one row of 100 mm.
C11_Witness ==
    /\ d_pc = "check"
    /\ rain_csv.rows = <<RainRow(GoaPadded, 2019, <<"1", "0", "0">>),
                         RainRow(Goa, 2019, <<"N", "R">>)>>
    /\ Len(df_rain_clean.rows) = 1
    /\ df_rain_clean.rows[1].state = Goa
    /\ df_rain_clean.rows[1].year = 2019
    /\ df_rain_clean.rows[1].annual_rainfall_mm = 100

\* The store that holds exactly the two tables of the frames c and r.
BuiltFrom(d, c, r) ==
    /\ d.exists
    /\ Len(d.tables) = 2
    /\ \E i, j \in 1..2 :
          /\ d.tables[i] = [name |-> "agriculture_production", rows |-> c.rows]
          /\ d.tables[j] = [name |-> "climate_rainfall", rows |-> r.rows]

\* C12: when db_creator.main has run to completion twice in succession on
\* the same raw files, the store after the second run is the store after the
\* first: the same two tables with the same rows, which are the rows of the
\* cleaned frames, none of them twice.
C12_SecondRunReplacesTheTables ==
    (prev_end = "complete" /\ d_pc = "complete") =>
        /\ db = db_before
        /\ BuiltFrom(db, df_crop_clean, df_rain_clean)
        /\ \A i \in 1..Len(db.tables) :
              Len(db.tables[i].rows) <=
                  (IF db.tables[i].name = "agriculture_production"
                   THEN Len(crop_csv.rows) ELSE Len(rain_csv.rows))

\* The second run completed on a store that the first run had filled with a
\* row in each table.
C12_Witness ==
    /\ run = 2
    /\ prev_end = "complete"
    /\ d_pc = "complete"
    /\ db_ops = <<"remove", "connect", "to_sql agriculture_production",
                  "to_sql climate_rainfall", "close">>
    /\ \A i \in 1..Len(db.tables) : Len(db.tables[i].rows) = 1

\* C15: after every run of db_creator.main, a run in which writing a table
\* raises included, the store holds either both tables of this run or
\* exactly what it held before the run: never missing, empty or with one
\* table only.
C15_BuildIsAllOrNothing ==
    d_pc \in {"complete", "build_failed", "save_error"} =>
        \/ db = db_before
        \/ BuiltFrom(db, df_crop_clean, df_rain_clean)

\* C17: a run of rainfall.main that stops on the fatal signal writes
\* nothing: raw_rainfall_data.csv is neither created nor overwritten and the
\* records accumulated from earlier combinations are not persisted; the file
\* is written only once the loop over all combinations has completed.
C17_FatalStopWritesNothing ==
    /\ [](/\ m_pc = "stopped" =>
                /\ out_file \in {NoFile, OldFile}
                /\ all_rainfall_records # <<>> => out_file.rows # all_rainfall_records
          /\ m_pc \in {"save", "done"} =>
                (queried = AllCombinations /\ ret.kind = "list"))
    /\ [][/\ m_pc' = "stopped" => out_file' = out_file
          /\ m_pc = "stopped" => UNCHANGED vars
          /\ out_file' # out_file =>
                /\ m_pc = "save"
                /\ m_pc' = "done"
                /\ queried = AllCombinations
                /\ out_file' = [exists |-> TRUE, rows |-> all_rainfall_records]]_vars

\* main stopped on the fatal signal of the third combination with the
\* records of an earlier one in hand, and the file of an earlier run is as
\* it was.
C17_Witness ==
    /\ m_pc = "stopped"
    /\ Len(queried) = 3
    /\ Len(all_rainfall_records) >= limit
    /\ out_file = OldFile

\* The texts the front-end words as an error, by their first piece.
IsErrorMessage(content) ==
    /\ content # <<>>
    /\ content[1] \in {"An error occurred: ",
                       "Error: Agent returned invalid/incomplete JSON. (Raw response: ",
                       "Sorry, I couldn't find an answer in the expected format."}

\* C13: when the agent invocation for a question raises, the reply appended
\* to the conversation is an inline error message from the assistant, and
\* the messages that were there before the question are all still there,
\* unchanged and in the same order, followed by the question.
C13_AgentFailureIsInlineAndKeepsHistory ==
    /\ [](c_pc = "idle" /\ invocation = "raised" =>
            /\ Len(messages) = Len(history_before) + 2
            /\ SubSeq(messages, 1, Len(history_before)) = history_before
            /\ messages[Len(messages) - 1] = [role |-> "user", content |-> prompt]
            /\ messages[Len(messages)].role = "assistant"
            /\ IsErrorMessage(messages[Len(messages)].content)
            /\ \E e \in Exceptions : messages[Len(messages)].content[2] = e)
    /\ [][invocation' = "raised" /\ c_pc = "invoke" =>
            /\ Len(messages') = Len(messages) + 1
            /\ SubSeq(messages', 1, Len(messages)) = messages]_vars

\* The first question was answered; the invocation for the second raised.
C13_Witness ==
    /\ c_pc = "idle"
    /\ invocation = "raised"
    /\ Len(messages) = 4
    /\ messages[2].content = <<ANSWER_TEXT>>
    /\ messages[3].content # messages[1].content
    /\ messages[4].content = error_message("no such table: rainfall")

\* The lists of members of a JSON object, k members with commas between.
MemberLists(k) ==
    {[i \in 1..(2 * Len(ms) - 1) |-> IF i % 2 = 1 THEN ms[(i + 1) \div 2] ELSE ","] :
        ms \in UNION {[1..m -> {"A", "S"}] : m \in 1..k}}

\* The output holds, from its first opening brace to its last closing brace,
\* a JSON object with an "answer" member.
ExpectedShape(out) ==
    \E i, j \in 1..Len(out) :
        /\ i < j
        /\ out[i] = "{" /\ \A k \in 1..(i - 1) : out[k] # "{"
        /\ out[j] = "}" /\ \A k \in (j + 1)..Len(out) : out[k] # "}"
        /\ \E k \in (i + 1)..(j - 1) : out[k] = "A"
        /\ SubSeq(out, i + 1, j - 1) \in MemberLists(Len(out))

\* C14: whenever the agent's final output cannot be parsed into the expected
\* answer shape - no JSON object at all, an opening brace without a closing
\* brace, or malformed JSON between the first '{' and the last '}' - the
\* reply is a user-visible error message.
C14_UnparseableOutputShowsError ==
    (c_pc = "idle" /\ invocation = "returned" /\ ~ExpectedShape(output_str)) =>
        /\ IsErrorMessage(final_answer)
        /\ messages[Len(messages)] = [role |-> "assistant", content |-> final_answer]

\* C16: the conversation history is append-only and alternates user and
\* assistant messages from a user message on: every question adds one user
\* message and then, answered or failed, one assistant message, so that a
\* question that has been handled leaves no user message unanswered.
C16_HistoryAlternatesAndOnlyGrows ==
    /\ [](/\ \A i \in 1..Len(messages) :
                messages[i].role = IF i % 2 = 1 THEN "user" ELSE "assistant"
          /\ Len(messages) = 2 * asked - (IF c_pc = "invoke" THEN 1 ELSE 0)
          /\ (c_pc = "idle" /\ messages # <<>>) =>
                messages[Len(messages)].role = "assistant")
    /\ [][\/ messages' = messages
          \/ /\ Len(messages') = Len(messages) + 1
             /\ SubSeq(messages', 1, Len(messages)) = messages]_vars

\* Two questions were handled, the first failed and the second answered.
C16_Witness ==
    /\ c_pc = "idle"
    /\ asked = 2
    /\ Len(messages) = 4
    /\ IsErrorMessage(messages[2].content)
    /\ messages[2].content[1] = "An error occurred: "
    /\ messages[4].content = <<ANSWER_TEXT>>
    /\ invocation = "returned"

====
